---- MODULE Spec2Model ----
(***************************************************************************)
(* Notification ingestion pipeline of the event-driven service:            *)
(*   server.ts        startServer: initialise the store, then listen       *)
(*   controller       createNotification: validate, emit, respond          *)
(*   notification.event.ts  the "newNotification" listener (the Writer)    *)
(*   Notification.ts  the entity / table row and the data source           *)
(* The process is a single-threaded event loop: a handler runs to          *)
(* completion before any other callback of the process runs; the store     *)
(* (MySQL) is a separate process.                                          *)
(***************************************************************************)
EXTENDS Integers, Sequences, FiniteSets

\* ------------------------------------------------------------------ bounds
\* number of requests that arrive during one run
MaxReq == 2
\* last value of the store's clock (createdAt values are 1..MaxClock)
MaxClock == 2

Req == 1..MaxReq

\* ------------------------------------------------------------ JSON values
\* A field of req.body: absent, null, or a string.
Undefined == <<"undefined">>
Null == <<"null">>
Str(s) == <<"string", s>>

MessageInputs == {Undefined, Str(""), Str("User logged in"), Str("Disk full")}
TypeInputs == {Undefined, Null, Str(""), Str("INFO")}

\* JavaScript's !v for the values above.
IsFalsy_OnlyUndefined(v) == v = Undefined

IsFalsy(v) == v = Undefined \/ v = Null \/ v = Str("")

\* controller line 7: if (!message || !type)
Invalid_BothMissing(m, t) == IsFalsy(m) /\ IsFalsy(t)

Invalid(m, t) == IsFalsy(m) \/ IsFalsy(t)

\* controller line 8 and line 13: the two responses
BadRequest == [status |-> 400, body |-> <<"error", "Message and type are required">>]
Created == [status |-> 201, body |-> <<"message", "Notification event triggered">>]

\* ----------------------------------------------------------------- entity
\* Notification.ts: id and createdAt are unset (0) until the store assigns them.
NoNotification == [id |-> 0, message |-> Undefined, type |-> Undefined, createdAt |-> 0]

\* notification.event.ts lines 9-11
NewNotification_Swapped(m, t) == [id |-> 0, message |-> t, type |-> m, createdAt |-> 0]

NewNotification(m, t) == [id |-> 0, message |-> m, type |-> t, createdAt |-> 0]

\* @PrimaryGeneratedColumn: the table's AUTO_INCREMENT counter
NextAutoIncrement_Stuck(id) == id

NextAutoIncrement(id) == id + 1

\* The INSERT of one entity: a new row with the store's id and createdAt.
InsertRow_Dedup(rows, n, id, at) ==
    IF \E i \in DOMAIN rows : rows[i].message = n.message /\ rows[i].type = n.type
    THEN rows
    ELSE Append(rows, [id |-> id, message |-> n.message, type |-> n.type, createdAt |-> at])

InsertRow_Upsert(rows, n, id, at) ==
    LET new == [id |-> id, message |-> n.message, type |-> n.type, createdAt |-> at]
    IN  IF \E i \in DOMAIN rows : rows[i].message = n.message
        THEN [i \in DOMAIN rows |-> IF rows[i].message = n.message THEN new ELSE rows[i]]
        ELSE Append(rows, new)

InsertRow_Twice(rows, n, id, at) ==
    LET new == [id |-> id, message |-> n.message, type |-> n.type, createdAt |-> at]
    IN  Append(Append(rows, new), [new EXCEPT !.id = id + MaxReq + 1])

InsertRow(rows, n, id, at) ==
    Append(rows, [id |-> id, message |-> n.message, type |-> n.type, createdAt |-> at])

\* ------------------------------------------------------------------ state
VARIABLES
    server,        \* startServer: "initializing", "listening" or "failed"
    initialized,   \* AppDataSource.isInitialized
    alive,         \* the node process is running
    listeners,     \* number of listeners registered for "newNotification"
    dbUp,          \* the store is reachable
    now,           \* the store's clock
    nextId,        \* the table's AUTO_INCREMENT value
    store,         \* the notification table: a sequence of rows, in commit order
    body,          \* body[r]: req.body of request r
    hpc,           \* hpc[r]: createNotification's position for request r
    response,      \* response[r]: the responses sent for request r, in order
    emitted,       \* emitted[r]: "newNotification" events published for r
    invoked,       \* invoked[r]: listener invocations caused by r
    notification,  \* notification[r]: the Writer's entity for request r
    write,         \* write[r]: "none", "issued", "committed", "logged", "rejected"
    insertId       \* insertId[r]: the id the store assigned to r's insert (0: none)

vars == <<server, initialized, alive, listeners, dbUp, now, nextId, store, body,
          hpc, response, emitted, invoked, notification, write, insertId>>

procVars == <<server, initialized, alive, listeners>>
storeVars == <<nextId, store, insertId>>
reqVars == <<body, hpc, response, emitted, invoked, notification, write>>

\* A handler is in the middle of its synchronous segment.
Running == \E r \in Req : hpc[r] \in {"emit", "respond"}

Init ==
    /\ server = "initializing"
    /\ initialized = FALSE
    /\ alive = TRUE
    /\ listeners = 1
    /\ dbUp \in BOOLEAN
    /\ now = 1
    /\ nextId = 1
    /\ store = <<>>
    /\ body = [r \in Req |-> [message |-> Undefined, type |-> Undefined]]
    /\ hpc = [r \in Req |-> "idle"]
    /\ response = [r \in Req |-> <<>>]
    /\ emitted = [r \in Req |-> 0]
    /\ invoked = [r \in Req |-> 0]
    /\ notification = [r \in Req |-> NoNotification]
    /\ write = [r \in Req |-> "none"]
    /\ insertId = [r \in Req |-> 0]

\* ------------------------------------------------------------ environment
StoreDown ==
    /\ dbUp
    /\ dbUp' = FALSE
    /\ UNCHANGED <<procVars, now, storeVars, reqVars>>

StoreUp ==
    /\ ~dbUp
    /\ dbUp' = TRUE
    /\ UNCHANGED <<procVars, now, storeVars, reqVars>>

Tick ==
    /\ now < MaxClock
    /\ now' = now + 1
    /\ UNCHANGED <<procVars, dbUp, storeVars, reqVars>>

\* ---------------------------------------------------------------- startup
\* server.ts lines 9-13: initialize() resolved, the listener is started.
InitializeOk ==
    /\ alive
    /\ server = "initializing"
    /\ dbUp
    /\ initialized' = TRUE
    /\ server' = "listening"
    /\ UNCHANGED <<alive, listeners, dbUp, now, storeVars, reqVars>>

\* server.ts lines 14-16: initialize() rejected, the error is logged.
InitializeFail_StillListens ==
    /\ alive
    /\ server = "initializing"
    /\ ~dbUp
    /\ server' = "listening"
    /\ UNCHANGED <<initialized, alive, listeners, dbUp, now, storeVars, reqVars>>

InitializeFail ==
    /\ alive
    /\ server = "initializing"
    /\ ~dbUp
    /\ server' = "failed"
    /\ UNCHANGED <<initialized, alive, listeners, dbUp, now, storeVars, reqVars>>

\* ---------------------------------------------------------------- handler
\* Requests are numbered in the order in which the listener hands them over.
Arrived(r) == hpc[r] # "idle"

\* controller lines 5-9: a request reaches createNotification; the body is
\* destructured and validated; an invalid body is answered at once.
CreateNotification_NoReturn(r, m, t) ==
    /\ alive
    /\ server = "listening"
    /\ ~Running
    /\ hpc[r] = "idle"
    /\ \A q \in Req : q < r => hpc[q] # "idle"
    /\ body' = [body EXCEPT ![r] = [message |-> m, type |-> t]]
    /\ response' = IF Invalid(m, t)
                   THEN [response EXCEPT ![r] = Append(@, BadRequest)]
                   ELSE response
    /\ hpc' = [hpc EXCEPT ![r] = "emit"]
    /\ UNCHANGED <<procVars, dbUp, now, storeVars, emitted, invoked, notification, write>>

CreateNotification(r, m, t) ==
    /\ alive
    /\ server = "listening"
    /\ ~Running
    /\ ~Arrived(r)
    /\ \A q \in Req : q < r => Arrived(q)
    /\ body' = [body EXCEPT ![r] = [message |-> m, type |-> t]]
    /\ IF Invalid(m, t)
       THEN /\ response' = [response EXCEPT ![r] = Append(@, BadRequest)]
            /\ hpc' = [hpc EXCEPT ![r] = "done"]
       ELSE /\ response' = response
            /\ hpc' = [hpc EXCEPT ![r] = "emit"]
    /\ UNCHANGED <<procVars, dbUp, now, storeVars, emitted, invoked, notification, write>>

\* controller line 12 with notification.event.ts lines 7-12: emit() calls each
\* registered listener synchronously; the listener builds its entity, calls
\* save() and suspends at the await; emit() then returns.
EmitNewNotification_Deferred(r) ==
    /\ hpc[r] = "emit"
    /\ emitted' = [emitted EXCEPT ![r] = @ + 1]
    /\ hpc' = [hpc EXCEPT ![r] = "respond"]
    /\ UNCHANGED <<procVars, dbUp, now, storeVars, body, response, invoked,
                   notification, write>>

EmitNewNotification_Twice(r) ==
    /\ hpc[r] = "emit"
    /\ emitted' = [emitted EXCEPT ![r] = @ + 1]
    /\ invoked' = [invoked EXCEPT ![r] = @ + 2 * listeners]
    /\ notification' = [notification EXCEPT
                          ![r] = NewNotification(body[r].message, body[r].type)]
    /\ write' = [write EXCEPT ![r] = "issued"]
    /\ hpc' = [hpc EXCEPT ![r] = "respond"]
    /\ UNCHANGED <<procVars, dbUp, now, storeVars, body, response>>

EmitNewNotification(r) ==
    /\ hpc[r] = "emit"
    /\ emitted' = [emitted EXCEPT ![r] = @ + 1]
    /\ invoked' = [invoked EXCEPT ![r] = @ + listeners]
    /\ IF listeners > 0
       THEN /\ notification' = [notification EXCEPT
                                  ![r] = NewNotification(body[r].message, body[r].type)]
            /\ write' = [write EXCEPT ![r] = "issued"]
       ELSE UNCHANGED <<notification, write>>
    /\ hpc' = [hpc EXCEPT ![r] = "respond"]
    /\ UNCHANGED <<procVars, dbUp, now, storeVars, body, response>>

\* controller line 13: the acknowledgement; the handler's segment ends.
Respond_ReportsStore(r) ==
    /\ hpc[r] = "respond"
    /\ response' = [response EXCEPT ![r] =
                       Append(@, IF dbUp THEN Created
                                 ELSE [status |-> 500, body |-> <<"error", "Store unavailable">>])]
    /\ hpc' = [hpc EXCEPT ![r] = "done"]
    /\ UNCHANGED <<procVars, dbUp, now, storeVars, body, emitted, invoked,
                   notification, write>>

Respond(r) ==
    /\ hpc[r] = "respond"
    /\ response' = [response EXCEPT ![r] = Append(@, Created)]
    /\ hpc' = [hpc EXCEPT ![r] = "done"]
    /\ UNCHANGED <<procVars, dbUp, now, storeVars, body, emitted, invoked,
                   notification, write>>

\* ----------------------------------------------------------------- writer
\* notification.event.ts line 12, store side: the insert issued by save() is
\* carried out by the event loop once the handler's segment has returned; the
\* store commits the row and assigns its id and createdAt.
StoreCommit_SharedEntity(r) ==
    /\ write[r] = "issued"
    /\ hpc[r] = "done"
    /\ dbUp
    /\ LET last == CHOOSE q \in Req :
                      /\ write[q] # "none"
                      /\ \A p \in Req : write[p] # "none" => p <= q
       IN  store' = InsertRow(store, notification[last], nextId, now)
    /\ insertId' = [insertId EXCEPT ![r] = nextId]
    /\ nextId' = NextAutoIncrement(nextId)
    /\ write' = [write EXCEPT ![r] = "committed"]
    /\ UNCHANGED <<procVars, dbUp, now, body, hpc, response, emitted, invoked, notification>>

StoreCommit(r) ==
    /\ write[r] = "issued"
    /\ hpc[r] = "done"
    /\ dbUp
    /\ store' = InsertRow(store, notification[r], nextId, now)
    /\ insertId' = [insertId EXCEPT ![r] = nextId]
    /\ nextId' = NextAutoIncrement(nextId)
    /\ write' = [write EXCEPT ![r] = "committed"]
    /\ UNCHANGED <<procVars, dbUp, now, body, hpc, response, emitted, invoked, notification>>

\* notification.event.ts lines 12-13: save() resolved; the entity carries the
\* generated columns and the confirmation is logged.
WriterResume(r) ==
    /\ alive
    /\ ~Running
    /\ write[r] = "committed"
    /\ notification' = [notification EXCEPT
                          ![r] = [@ EXCEPT !.id = insertId[r],
                                           !.createdAt = (CHOOSE row \in {store[i] : i \in DOMAIN store} :
                                                             row.id = insertId[r]).createdAt]]
    /\ write' = [write EXCEPT ![r] = "logged"]
    /\ UNCHANGED <<procVars, dbUp, now, storeVars, body, hpc, response, emitted, invoked>>

\* notification.event.ts line 12: save() rejected (store unreachable, or the
\* insert refused; a refused insert may use up an AUTO_INCREMENT value). No
\* catch: the listener's promise is rejected with nobody handling it, which
\* the runtime either reports (the process goes on) or turns into a fatal
\* error (the process ends), depending on its unhandled-rejections mode.
WriterReject_Surfaces(r) ==
    /\ alive
    /\ ~Running
    /\ write[r] = "issued"
    /\ hpc[r] = "done"
    /\ write' = [write EXCEPT ![r] = "rejected"]
    /\ response' = [response EXCEPT ![r] =
                       Append(@, [status |-> 500, body |-> <<"error", "Store unavailable">>])]
    /\ UNCHANGED <<procVars, dbUp, now, storeVars, body, hpc, emitted, invoked, notification>>

WriterReject_Retries(r) ==
    /\ alive
    /\ ~Running
    /\ write[r] = "issued"
    /\ hpc[r] = "done"
    /\ invoked[r] < MaxReq + 1
    /\ invoked' = [invoked EXCEPT ![r] = @ + 1]
    /\ UNCHANGED <<procVars, dbUp, now, storeVars, body, hpc, response, emitted,
                   notification, write>>

WriterReject(r) ==
    /\ alive
    /\ ~Running
    /\ write[r] = "issued"
    /\ hpc[r] = "done"
    /\ write' = [write EXCEPT ![r] = "rejected"]
    /\ \E fatal \in BOOLEAN : alive' = ~fatal
    /\ IF dbUp
       THEN \E used \in BOOLEAN :
               nextId' = IF used THEN NextAutoIncrement(nextId) ELSE nextId
       ELSE nextId' = nextId
    /\ UNCHANGED <<server, initialized, listeners, dbUp, now, store, insertId, body,
                   hpc, response, emitted, invoked, notification>>

\* ---------------------------------------------------------- specification
Next ==
    \/ StoreDown
    \/ StoreUp
    \/ Tick
    \/ InitializeOk
    \/ InitializeFail
    \/ \E r \in Req, m \in MessageInputs, t \in TypeInputs : CreateNotification(r, m, t)
    \/ \E r \in Req : EmitNewNotification(r)
    \/ \E r \in Req : Respond(r)
    \/ \E r \in Req : StoreCommit(r)
    \/ \E r \in Req : WriterResume(r)
    \/ \E r \in Req : WriterReject(r)

Spec == Init /\ [][Next]_vars

TypeOK ==
    /\ server \in {"initializing", "listening", "failed"}
    /\ initialized \in BOOLEAN
    /\ alive \in BOOLEAN
    /\ dbUp \in BOOLEAN
    /\ now \in 1..MaxClock
    /\ nextId \in 1..(MaxReq + 1)
    /\ \A r \in Req : hpc[r] \in {"idle", "emit", "respond", "done"}
    /\ \A r \in Req : write[r] \in {"none", "issued", "committed", "logged", "rejected"}

\* The scheduling the runtime guarantees: a handler's synchronous segment runs
\* to its end, and every issued save() settles (the driver resolves it or
\* rejects it) and the Writer is resumed with the result.
FairSpec ==
    /\ Spec
    /\ \A r \in Req : WF_vars(EmitNewNotification(r))
    /\ \A r \in Req : WF_vars(Respond(r))
    /\ \A r \in Req : WF_vars(StoreCommit(r) \/ WriterReject(r))
    /\ \A r \in Req : WF_vars(WriterResume(r))

\* ------------------------------------------------------------- properties
MissingOrEmpty(v) == v \in {Undefined, Null, Str("")}
NonEmptyString(v) == v[1] = "string" /\ v[2] # ""
ValidBody(r) == NonEmptyString(body[r].message) /\ NonEmptyString(body[r].type)
Committed(r) == write[r] \in {"committed", "logged"}
RowsOf(r) == {i \in DOMAIN store : insertId[r] # 0 /\ store[i].id = insertId[r]}
RowsWith(m, t) == {i \in DOMAIN store : store[i].message = m /\ store[i].type = t}

\* C1: a request whose message or type is missing or empty is answered with
\* exactly the 400 error body, publishes no event, and nothing is ever
\* constructed, written or persisted on its behalf.
C1_InvalidRejected ==
    \A r \in Req :
        (Arrived(r) /\ (MissingOrEmpty(body[r].message) \/ MissingOrEmpty(body[r].type)))
        => /\ hpc[r] = "done"
           /\ response[r] = <<BadRequest>>
           /\ emitted[r] = 0
           /\ invoked[r] = 0
           /\ notification[r] = NoNotification
           /\ write[r] = "none"
           /\ insertId[r] = 0

C1_Witness ==
    \E r \in Req :
        /\ body[r].message = Str("")
        /\ body[r].type = Str("INFO")
        /\ response[r] = <<BadRequest>>
        /\ \E q \in Req : q # r /\ Committed(q)

\* C2: a request with both fields non-empty has, once its handler has
\* finished, exactly the 201 acknowledgement as its response, whatever the
\* state of the store and whatever became of the write.
C2_ValidAcknowledged ==
    \A r \in Req :
        (Arrived(r) /\ ValidBody(r) /\ hpc[r] = "done") => response[r] = <<Created>>

C2_Witness ==
    \E r \in Req :
        /\ ValidBody(r)
        /\ response[r] = <<Created>>
        /\ write[r] = "rejected"
        /\ ~dbUp
        /\ store = <<>>

\* C3 (as claimed): after the 201 of a valid request, eventually exactly one
\* new row carrying that message and type exists.
C3_Original ==
    \A r \in Req :
        [](response[r] = <<Created>>
            => <>(/\ Cardinality(RowsOf(r)) = 1
                  /\ \A i \in RowsOf(r) : /\ store[i].message = body[r].message
                                          /\ store[i].type = body[r].type))

\* C3 (amended): after the 201 of a valid request, no row exists for it while
\* its insert is pending or has failed, and from the store's commit on exactly
\* one row exists for it, carrying exactly its message and type and an id and
\* createdAt assigned by the store; the table holds one row per committed
\* insert and nothing else.
C3_OneRowOnceCommitted ==
    /\ \A r \in Req :
          response[r] = <<Created>> =>
             IF Committed(r)
             THEN /\ Cardinality(RowsOf(r)) = 1
                  /\ \A i \in RowsOf(r) : /\ store[i].message = body[r].message
                                          /\ store[i].type = body[r].type
                                          /\ store[i].id >= 1
                                          /\ store[i].createdAt \in 1..now
             ELSE RowsOf(r) = {}
    /\ Len(store) = Cardinality({r \in Req : Committed(r)})

C3_Witness ==
    \E r \in Req :
        /\ write[r] = "logged"
        /\ body[r] = [message |-> Str("User logged in"), type |-> Str("INFO")]
        /\ \E i \in DOMAIN store :
              store[i] = [id |-> notification[r].id, message |-> Str("User logged in"),
                          type |-> Str("INFO"), createdAt |-> notification[r].createdAt]

C5_FailureNeverSurfaced ==
    [][\A r \in Req :
          /\ (write[r] # "rejected" /\ write'[r] = "rejected")
             => (hpc[r] = "done" /\ response[r] = <<Created>>)
          /\ response[r] # <<>> => response'[r] = response[r]]_vars

C5_Witness ==
    \E r \in Req :
        /\ write[r] = "rejected"
        /\ response[r] = <<Created>>
        /\ ~alive

\* C6: every row of the table has a non-empty message and a non-empty type.
C6_RowsNonEmpty ==
    \A i \in DOMAIN store :
        NonEmptyString(store[i].message) /\ NonEmptyString(store[i].type)

C6_Witness ==
    \E i \in DOMAIN store : store[i].message = Str("Disk full")

\* C7: for every (message, type) pair the number of rows carrying it equals
\* the number of requests with that pair whose insert was committed: equal
\* submissions are never merged.
C7_NoDeduplication ==
    \A m \in MessageInputs, t \in TypeInputs :
        Cardinality(RowsWith(m, t))
          = Cardinality({r \in Req : Committed(r) /\ body[r].message = m /\ body[r].type = t})

C7_Witness ==
    \E r1, r2 \in Req :
        /\ r1 # r2
        /\ body[r1] = body[r2]
        /\ Committed(r1) /\ Committed(r2)
        /\ Cardinality(RowsWith(body[r1].message, body[r1].type)) = 2

\* C8: once startup has failed the listener is never started: no request is
\* received or answered, no event is published, the process stays up and
\* startup is not attempted again; a request is only ever handled with the
\* store initialised.
StartupGate ==
    /\ server = "failed"
       => /\ alive
          /\ ~initialized
          /\ \A r \in Req : ~Arrived(r) /\ response[r] = <<>> /\ emitted[r] = 0
    /\ \A r \in Req : Arrived(r) => initialized

C9_AppendOnly ==
    [][/\ Len(store') >= Len(store)
       /\ \A i \in DOMAIN store : store'[i] = store[i]]_vars

C9_Witness ==
    /\ Len(store) = 2
    /\ store[1].message = store[2].message
    /\ store[1].createdAt < store[2].createdAt

\* C10 (as claimed): the insert is issued only after the response has been
\* sent, and no store operation is started inside the handler's segment.
C10_Original ==
    \A r \in Req :
        /\ write[r] # "none" => response[r] # <<>>
        /\ hpc[r] \in {"emit", "respond"} => write[r] = "none"

\* C10 (amended): the insert is issued inside the handler's segment, by the
\* listener that emit() runs synchronously, before the response is sent; the
\* handler never waits for it, and the Writer resumes from its await (saved or
\* rejected) only after the response has been sent.
C10_IssuedBeforeResumedAfter ==
    \A r \in Req :
        /\ hpc[r] = "emit" => (write[r] = "none" /\ response[r] = <<>>)
        /\ hpc[r] = "respond" => (write[r] = "issued" /\ response[r] = <<>>)
        /\ write[r] \in {"logged", "rejected"} => response[r] = <<Created>>

C10_Witness ==
    \E r \in Req :
        /\ hpc[r] = "respond"
        /\ write[r] = "issued"
        /\ notification[r].message = body[r].message
        /\ response[r] = <<>>

\* C11: the listener runs, and so calls save(), at most once per request;
\* the step in which that save() is rejected leaves the table as it was, and
\* from then on the request's write stays rejected and no row is ever stored
\* for it.
C11_NoRetry ==
    [][\A r \in Req :
          /\ invoked'[r] <= 1
          /\ (write[r] = "issued" /\ write'[r] # "issued")
             => write'[r] \in {"committed", "rejected"}
          /\ (write[r] # "rejected" /\ write'[r] = "rejected") => store' = store
          /\ write[r] = "rejected"
             => (write'[r] = "rejected" /\ insertId'[r] = 0 /\ invoked'[r] = invoked[r])]_vars

\* a rejected request next to a later store recovery and another request's row
C11_Witness ==
    \E r, q \in Req :
        /\ write[r] = "rejected"
        /\ insertId[r] = 0
        /\ dbUp
        /\ alive
        /\ write[q] = "logged"
        /\ Len(store) = 1

\* C12 (as claimed): the step in which one request's write settles (the row
\* committed, the Writer resumed, or the save rejected) changes nothing of any
\* other request, and leaves running the process that answers the other
\* requests and resumes their Writers.
C12_Original ==
    [][\A r \in Req :
          (write'[r] # write[r] /\ write'[r] \in {"committed", "logged", "rejected"})
          => /\ \A q \in Req \ {r} :
                   /\ body'[q] = body[q]
                   /\ hpc'[q] = hpc[q]
                   /\ response'[q] = response[q]
                   /\ notification'[q] = notification[q]
                   /\ write'[q] = write[q]
                   /\ insertId'[q] = insertId[q]
             /\ alive => alive']_vars

\* C13: the entity the Writer builds for a request holds that request's
\* message and type from construction on, and the row stored for a request
\* holds that request's message and type, however the requests and their
\* pending writes interleave.
C13_OwnRecord ==
    \A r \in Req :
        /\ write[r] # "none"
           => /\ notification[r].message = body[r].message
              /\ notification[r].type = body[r].type
        /\ Committed(r)
           => /\ RowsOf(r) # {}
              /\ \A i \in RowsOf(r) : /\ store[i].message = body[r].message
                                      /\ store[i].type = body[r].type
        /\ write[r] = "logged" => notification[r].id = insertId[r]

\* two requests with different messages, both pending at once, the later one
\* committed first
C13_Witness ==
    \E r1, r2 \in Req :
        /\ r1 < r2
        /\ body[r1].message # body[r2].message
        /\ write[r1] = "logged" /\ write[r2] = "logged"
        /\ insertId[r2] < insertId[r1]
        /\ \E i, j \in DOMAIN store :
              /\ i < j
              /\ store[i].message = body[r2].message
              /\ store[j].message = body[r1].message

\* C14: exactly one listener is registered for "newNotification" in every
\* state; a valid request publishes the event once, in its emit step, and
\* that publish runs the Writer exactly once; the Writer never runs for a
\* request that was not accepted.
C14_OneSubscriber ==
    /\ listeners = 1
    /\ \A r \in Req :
          /\ emitted[r] = (IF hpc[r] \in {"respond", "done"} /\ ValidBody(r) THEN 1 ELSE 0)
          /\ invoked[r] = emitted[r]
          /\ invoked[r] > 0 => (Arrived(r) /\ ValidBody(r))
          /\ (write[r] # "none") <=> (invoked[r] = 1)

C14_Witness ==
    \E r, q \in Req :
        /\ invoked[r] = 1
        /\ emitted[r] = 1
        /\ hpc[r] = "respond"
        /\ hpc[q] = "done"
        /\ invoked[q] = 0
        /\ response[q] = <<BadRequest>>

\* C15: the table never holds more rows than 201 responses have been sent;
\* every row was stored for exactly one request, which was valid and had been
\* answered with the 201, and no request has more than one row.
C15_RowsWithinAccepted ==
    /\ Len(store) <= Cardinality({r \in Req : response[r] = <<Created>>})
    /\ \A i \in DOMAIN store :
          Cardinality({r \in Req : /\ insertId[r] = store[i].id
                                   /\ ValidBody(r)
                                   /\ response[r] = <<Created>>}) = 1
    /\ \A r \in Req : Cardinality(RowsOf(r)) <= 1

\* two requests answered, one row so far, the other write still pending
C15_Witness ==
    \E r, q \in Req :
        /\ response[r] = <<Created>> /\ response[q] = <<Created>>
        /\ write[r] = "committed"
        /\ write[q] = "issued"
        /\ Len(store) = 1

OneResponse ==
    \A r \in Req :
        /\ Len(response[r]) <= 1
        /\ (hpc[r] = "done") <=> (Len(response[r]) = 1)
        /\ response[r] # <<>> => response[r] \in {<<BadRequest>>, <<Created>>}

\* C16: a request that has entered createNotification never has more than one
\* response; it has exactly one, the 400 or the 201, from the end of its
\* handler on, and every request that entered the handler reaches that end,
\* whatever becomes of the Writer's work.
C16_ExactlyOneResponse ==
    /\ []OneResponse
    /\ \A r \in Req : [](Arrived(r) => <>(hpc[r] = "done" /\ Len(response[r]) = 1))

\* answered with the 201 while the write never completes: the process has
\* ended with the insert still pending
C16_Witness ==
    \E r \in Req :
        /\ response[r] = <<Created>>
        /\ write[r] = "issued"
        /\ ~alive

====
